---------------------------- MODULE Spec2Model ----------------------------
(***************************************************************************)
(* State-machine model of the 3D scene editor: the edit history kept by    *)
(* App (history, historyIndex), the editor intents that commit snapshots,  *)
(* the asynchronous scene generation, and the transform gizmo of           *)
(* SceneItem (drag start / change / end on a live mesh).                   *)
(*                                                                         *)
(* Lengths are integers in units of 1/10000 metre (UnitsPerMetre), so the  *)
(* initial scene of the source is represented exactly.  Rotations are      *)
(* integers in quarter turns (Math.PI / 2); they are only copied, never    *)
(* computed with.  Object ids are positive integers, 0 stands for null.    *)
(***************************************************************************)
EXTENDS Integers, Sequences, FiniteSets, TLC

VARIABLES
    history,        \* App: useState<SceneObject[][]>  (1-based sequence here)
    historyIndex,   \* App: useState(0), 0-based as in the source
    selectedId,     \* App: useState<string | null>, NullId for null
    transformMode,  \* App: useState<TransformMode>
    snapEnabled,    \* App: useState(false)
    isGenerating,   \* App: useState(false)
    request,        \* the pending handleGenerateScene call: the historyIndex its closure captured
    nextId,         \* number of ids generateId has handed out
    mesh,           \* SceneItem: the THREE.Mesh of every mounted item (its live transform)
    isDragging,     \* SceneItem: useState(false), per mounted item
    livePosition,   \* SceneItem: useState livePosition, per mounted item
    liveRotation,   \* SceneItem: useState liveRotation, per mounted item
    controls,       \* id whose TransformControls has the pointer down, NullId when none
    fault,          \* an exception escaped a render: the React tree is gone
    unit,           \* App: useState<UnitType>(UnitType.INCH)
    showDimensions, \* App: useState(false)
    showOrigin,     \* App: useState(false)
    showCoordinates,\* App: useState(false)
    probe,          \* observer: the commit / undo / redo sequence in progress, or an alert()
    abandoned       \* observer: live transforms left by drags that ended without a release

\* The view settings of the toolbar
viewVars == <<unit, showDimensions, showOrigin, showCoordinates>>

vars == <<history, historyIndex, selectedId, transformMode, snapEnabled,
          isGenerating, request, nextId, mesh, isDragging,
          livePosition, liveRotation, controls, fault, probe, abandoned, viewVars>>

---------------------------------------------------------------------------
(* Bounds of the model *)

MaxHistory == 3     \* commits are disabled once history would grow beyond this
MaxIds == 2         \* ids generateId may hand out in one behaviour
MaxPendingHistory == 2  \* as MaxHistory, for the intents of PendingSpec
MaxScenarioHistory == 4 \* as MaxHistory, for the intents of ScenarioSpec

(* Program constants *)

UnitsPerMetre == 10000
NullId == 0
NoRequest == -1

---------------------------------------------------------------------------
(* Values *)

Vec(a, b, c) == [x |-> a, y |-> b, z |-> c]

\* a property read from a JSON value that does not have it
UndefinedVec == [undefined |-> TRUE]

IsVec(v) == DOMAIN v = {"x", "y", "z"}

TransformModes == {"translate", "rotate", "scale"}

toLowerCase(type) ==
    CASE type = "BOX" -> "box"
      [] type = "SPHERE" -> "sphere"
      [] type = "TEXT" -> "text"
      [] OTHER -> type

INITIAL_OBJECTS ==
    << [id |-> 1, name |-> "Plank", type |-> "BOX",
        position |-> Vec(2286, 270, 1524),
        rotation |-> Vec(1, 0, 0),
        scale |-> Vec(4572, 3048, 180),
        color |-> "#8b5a2b", materialType |-> "WOOD", visible |-> TRUE,
        text |-> ""],
       [id |-> 2, name |-> "Sheet", type |-> "BOX",
        position |-> Vec(12192, 90, 6096),
        rotation |-> Vec(-1, 0, 0),
        scale |-> Vec(24384, 12192, 180),
        color |-> "#2d3748", materialType |-> "STANDARD", visible |-> TRUE,
        text |-> ""] >>

InitialIds == 2

\* generateId(): the next unused id (the random ids of the source never repeat)
generateId(n) == InitialIds + n + 1

---------------------------------------------------------------------------
(* Sequences of scene objects *)

Ids(objs) == {objs[i].id : i \in DOMAIN objs}

\* objs.find(o => o.id === id); only used when id is present
Find(objs, id) == objs[CHOOSE i \in DOMAIN objs : objs[i].id = id /\ \A j \in 1..(i - 1) : objs[j].id # id]

\* objs.filter(o => o.id !== id)
RECURSIVE FilterOut(_, _)
FilterOut(objs, id) ==
    IF objs = <<>> THEN <<>>
    ELSE IF Head(objs).id = id THEN FilterOut(Tail(objs), id)
         ELSE <<Head(objs)>> \o FilterOut(Tail(objs), id)

\* { ...updates, ...obj }: the spread in the other order
MergeObjectLast(obj, updates) ==
    [f \in DOMAIN obj |-> obj[f]]

\* { ...obj, ...updates }
Merge(obj, updates) ==
    [f \in DOMAIN obj |-> IF f \in DOMAIN updates THEN updates[f] ELSE obj[f]]

Transform(o) == [position |-> o.position, rotation |-> o.rotation, scale |-> o.scale]

---------------------------------------------------------------------------
(* Derived values of App's render *)

HasObjects == historyIndex + 1 \in DOMAIN history

\* const objects = history[historyIndex]
objects == history[historyIndex + 1]

\* canUndo without the lower bound
canUndoUnbounded == historyIndex >= 0

canUndo == historyIndex > 0

canRedo == historyIndex < Len(history) - 1


---------------------------------------------------------------------------
(* One render of the tree after a handler's state updates *)

TransformFields == {"position", "rotation", "scale"}

NoProbe == [phase |-> "none"]

\* Every object can be drawn: SceneItem reads object.position.x and so on
Drawable(objs) ==
    \A i \in DOMAIN objs : \A f \in TransformFields : IsVec(objs[i][f])

\* <mesh position=... rotation=... scale=...>: a mounted mesh gets a prop
\* assigned only when the prop's value changed; a new mesh gets them all
MeshAfter(old, new) ==
    [id \in Ids(new) |->
        IF id \in DOMAIN mesh /\ id \in Ids(old)
        THEN [f \in TransformFields |->
                IF Find(new, id)[f] # Find(old, id)[f]
                THEN Find(new, id)[f] ELSE mesh[id][f]]
        ELSE Transform(Find(new, id))]

\* SceneItem state survives while the item stays mounted (key = obj.id)
DraggingAfter(new, drag) ==
    [id \in Ids(new) |-> IF id \in DOMAIN drag THEN drag[id] ELSE FALSE]

\* useEffect(() => { if (!isDragging) setLivePosition(object.position) })
LivePositionAfter(new, drag, live) ==
    [id \in Ids(new) |->
        IF id \in DOMAIN drag /\ drag[id] /\ id \in DOMAIN live
        THEN live[id] ELSE Find(new, id).position]

\* useState({ x: 0, y: 0, z: 0 }), kept while the item stays mounted
LiveRotationAfter(new, rot) ==
    [id \in Ids(new) |-> IF id \in DOMAIN rot THEN rot[id] ELSE Vec(0, 0, 0)]

\* {isSelected && mesh ? <TransformControls .../> : null}
ControlsAfter(new, sel, ctl) ==
    IF ctl # NullId /\ ctl = sel /\ ctl \in Ids(new) THEN ctl ELSE NullId

\* Observer: a drag on id ended without release while its mesh differs from
\* the snapshot; forgotten once the mesh agrees with the snapshot again
AbandonedAfter(new, sel, ctl, m) ==
    [id \in Ids(new) |->
        IF m[id] = Transform(Find(new, id)) THEN {}
        ELSE IF ctl = id /\ ControlsAfter(new, sel, ctl) = NullId THEN {m[id]}
        ELSE IF id \in DOMAIN abandoned THEN abandoned[id]
        ELSE {}]

\* The tree rendered from the new App state.  drag, live, rot and ctl are
\* the SceneItem states and the active gizmo as the handler left them.
Render(newHistory, newIndex, sel, drag, live, rot, ctl) ==
    IF newIndex + 1 \in DOMAIN newHistory /\ Drawable(newHistory[newIndex + 1])
    THEN LET new == newHistory[newIndex + 1]
             m == MeshAfter(objects, new)
         IN /\ mesh' = m
            /\ isDragging' = DraggingAfter(new, drag)
            /\ livePosition' = LivePositionAfter(new, drag, live)
            /\ liveRotation' = LiveRotationAfter(new, rot)
            /\ controls' = ControlsAfter(new, sel, ctl)
            /\ abandoned' = AbandonedAfter(new, sel, ctl, m)
            /\ fault' = FALSE
    ELSE \* objects is undefined, or an object has no position: render throws
         /\ mesh' = <<>>
         /\ isDragging' = <<>>
         /\ livePosition' = <<>>
         /\ liveRotation' = <<>>
         /\ controls' = NullId
         /\ abandoned' = <<>>
         /\ fault' = TRUE

---------------------------------------------------------------------------
(* Edit history *)

\* slice that starts after the first element
sliceFromSecond(h, n) == SubSeq(h, 2, IF n < Len(h) THEN n ELSE Len(h))

\* prevHistory.slice(0, n)
slice(h, n) == SubSeq(h, 1, IF n < Len(h) THEN n ELSE Len(h))

\* Call whose append spreads only the first of the items
CallFirstItem(action, prev) ==
    CASE action.fn = "append" ->
            prev \o (IF action.items = <<>> THEN <<>> ELSE <<Head(action.items)>>)
      [] action.fn = "filter" -> FilterOut(prev, action.id)
      [] action.fn = "toggle" ->
            [i \in DOMAIN prev |->
                IF prev[i].id = action.id
                THEN [prev[i] EXCEPT !.visible = ~prev[i].visible] ELSE prev[i]]
      [] action.fn = "update" ->
            [i \in DOMAIN prev |->
                IF prev[i].id = action.id
                THEN Merge(prev[i], action.updates) ELSE prev[i]]

\* The updater functions the handlers pass to setObjectsWithHistory, each
\* given by what its closure holds, applied to prev
Call(action, prev) ==
    CASE action.fn = "append" ->       \* prev => [...prev, ...items]
            prev \o action.items
      [] action.fn = "filter" ->       \* prev => prev.filter(o => o.id !== id)
            FilterOut(prev, action.id)
      [] action.fn = "toggle" ->       \* obj.id === id ? { ...obj, visible: !obj.visible } : obj
            [i \in DOMAIN prev |->
                IF prev[i].id = action.id
                THEN [prev[i] EXCEPT !.visible = ~prev[i].visible] ELSE prev[i]]
      [] action.fn = "update" ->       \* obj.id === id ? { ...obj, ...updates } : obj
            [i \in DOMAIN prev |->
                IF prev[i].id = action.id
                THEN Merge(prev[i], action.updates) ELSE prev[i]]

\* setObjectsWithHistory(action) of the render whose historyIndex was
\* captured, followed by the handler's setSelectedId(sel), then the render.
setObjectsWithHistory(captured, action, sel, drag, live, rot, ctl) ==
    IF captured + 1 \in DOMAIN history
    THEN LET currentObjects == history[captured + 1]
             newObjects == Call(action, currentObjects)
             newHistory == slice(history, captured + 1) \o <<newObjects>>
         IN /\ history' = newHistory
            /\ historyIndex' = historyIndex + 1
            /\ selectedId' = sel
            /\ probe' = [phase |-> "commit", before |-> objects, snapshot |-> newObjects]
            /\ Render(newHistory, historyIndex + 1, sel, drag, live, rot, ctl)
    ELSE \* currentObjects is undefined: the updater throws during render
         /\ UNCHANGED <<history, historyIndex, selectedId>>
         /\ probe' = NoProbe
         /\ Render(<<>>, 0, sel, drag, live, rot, ctl)

IdUniverse == 1..(InitialIds + MaxIds)

Init ==
    /\ history = <<INITIAL_OBJECTS>>
    /\ historyIndex = 0
    /\ selectedId = NullId
    /\ transformMode = "translate"
    /\ snapEnabled = FALSE
    /\ isGenerating = FALSE
    /\ request = NoRequest
    /\ nextId = 0
    /\ mesh = [id \in Ids(INITIAL_OBJECTS) |-> Transform(Find(INITIAL_OBJECTS, id))]
    /\ isDragging = [id \in Ids(INITIAL_OBJECTS) |-> FALSE]
    /\ livePosition = [id \in Ids(INITIAL_OBJECTS) |-> Find(INITIAL_OBJECTS, id).position]
    /\ liveRotation = [id \in Ids(INITIAL_OBJECTS) |-> Vec(0, 0, 0)]
    /\ controls = NullId
    /\ fault = FALSE
    /\ probe = NoProbe
    /\ abandoned = [id \in Ids(INITIAL_OBJECTS) |-> {}]
    /\ unit = "in"
    /\ showDimensions = FALSE
    /\ showOrigin = FALSE
    /\ showCoordinates = FALSE

\* handleUndo that returns at once while a generation is pending
handleUndoWhenIdle ==
    /\ ~fault
    /\ IF canUndo /\ ~isGenerating
       THEN /\ historyIndex' = historyIndex - 1
            /\ probe' = IF probe.phase = "commit"
                        THEN [probe EXCEPT !.phase = "undo"] ELSE NoProbe
            /\ Render(history, historyIndex - 1, selectedId, isDragging, livePosition, liveRotation, controls)
            /\ UNCHANGED <<history, selectedId>>
       ELSE /\ probe' = [phase |-> "undoIgnored"]
            /\ UNCHANGED <<history, historyIndex, selectedId, mesh, isDragging,
                           livePosition, liveRotation, controls, fault, abandoned>>
    /\ UNCHANGED <<viewVars, transformMode, snapEnabled, isGenerating, request, nextId>>

handleUndo ==
    /\ ~fault
    /\ IF canUndo
       THEN /\ historyIndex' = historyIndex - 1
            /\ probe' = IF probe.phase = "commit"
                        THEN [probe EXCEPT !.phase = "undo"] ELSE NoProbe
            /\ Render(history, historyIndex - 1, selectedId, isDragging, livePosition, liveRotation, controls)
            /\ UNCHANGED <<history, selectedId>>
       ELSE /\ probe' = [phase |-> "undoIgnored"]
            /\ UNCHANGED <<history, historyIndex, selectedId, mesh, isDragging,
                           livePosition, liveRotation, controls, fault, abandoned>>
    /\ UNCHANGED <<viewVars, transformMode, snapEnabled, isGenerating, request, nextId>>

handleRedo ==
    /\ ~fault
    /\ IF canRedo
       THEN /\ historyIndex' = historyIndex + 1
            /\ probe' = IF probe.phase = "undo"
                        THEN [probe EXCEPT !.phase = "redo"] ELSE NoProbe
            /\ Render(history, historyIndex + 1, selectedId, isDragging, livePosition, liveRotation, controls)
            /\ UNCHANGED <<history, selectedId>>
       ELSE /\ probe' = [phase |-> "redoIgnored"]
            /\ UNCHANGED <<history, historyIndex, selectedId, mesh, isDragging,
                           livePosition, liveRotation, controls, fault, abandoned>>
    /\ UNCHANGED <<viewVars, transformMode, snapEnabled, isGenerating, request, nextId>>

handleSelect(id) ==
    /\ ~fault
    /\ id \in Ids(objects) \cup {NullId}
    /\ selectedId' = id
    /\ probe' = NoProbe
    /\ Render(history, historyIndex, id, isDragging, livePosition, liveRotation, controls)
    /\ UNCHANGED <<viewVars, history, historyIndex, transformMode, snapEnabled,
                   isGenerating, request, nextId>>

AddTypes == {"BOX", "SPHERE"}

\* The object handleAddObject builds
NewObject(type) ==
    LET boxScale == Vec(4572, 3048, 180)
        hasSheet == \E i \in DOMAIN objects : objects[i].name = "Sheet"
        sheet == objects[CHOOSE i \in DOMAIN objects :
                     /\ objects[i].name = "Sheet"
                     /\ \A j \in 1..(i - 1) : objects[j].name # "Sheet"]
        scale == CASE type = "BOX" -> boxScale
                   [] type = "TEXT" -> Vec(UnitsPerMetre, UnitsPerMetre, 2000)
                   [] OTHER -> Vec(UnitsPerMetre, UnitsPerMetre, UnitsPerMetre)
        position ==
            IF type = "BOX"
            THEN IF hasSheet
                 THEN Vec(sheet.position.x,
                          sheet.position.y + sheet.scale.z \div 2 + boxScale.y \div 2,
                          sheet.position.z)
                 ELSE Vec(0, boxScale.y \div 2, 0)
            ELSE Vec(0, UnitsPerMetre, 0)
    IN [id |-> generateId(nextId),
        name |-> "New " \o toLowerCase(type),
        type |-> type,
        position |-> position,
        rotation |-> Vec(0, 0, 0),
        scale |-> scale,
        color |-> "#ffffff",
        materialType |-> "STANDARD",
        visible |-> TRUE,
        text |-> IF type = "TEXT" THEN "Text" ELSE ""]

\* handleAddObject without its setSelectedId(newObject.id)
handleAddObjectKeepingSelection(type) ==
    /\ ~fault
    /\ LET newObject == NewObject(type)
       IN setObjectsWithHistory(historyIndex, [fn |-> "append", items |-> <<newObject>>],
                                selectedId, isDragging, livePosition, liveRotation, controls)
    /\ nextId' = nextId + 1
    /\ UNCHANGED <<viewVars, transformMode, snapEnabled, isGenerating, request>>

handleAddObject(type) ==
    /\ ~fault
    /\ LET newObject == NewObject(type)
       IN setObjectsWithHistory(historyIndex, [fn |-> "append", items |-> <<newObject>>],
                                newObject.id, isDragging, livePosition, liveRotation, controls)
    /\ nextId' = nextId + 1
    /\ UNCHANGED <<viewVars, transformMode, snapEnabled, isGenerating, request>>

\* handleDeleteObject that clears the selection whatever is selected
handleDeleteObjectDeselecting(id) ==
    /\ ~fault
    /\ setObjectsWithHistory(historyIndex, [fn |-> "filter", id |-> id],
                             NullId, isDragging, livePosition, liveRotation, controls)
    /\ UNCHANGED <<viewVars, transformMode, snapEnabled, isGenerating, request, nextId>>

handleDeleteObject(id) ==
    /\ ~fault
    /\ setObjectsWithHistory(historyIndex, [fn |-> "filter", id |-> id],
                             IF selectedId = id THEN NullId ELSE selectedId,
                             isDragging, livePosition, liveRotation, controls)
    /\ UNCHANGED <<viewVars, transformMode, snapEnabled, isGenerating, request, nextId>>

\* handleDuplicateObject whose copy stays at the original's position
handleDuplicateObjectInPlace(id) ==
    /\ ~fault
    /\ IF id \in Ids(objects)
       THEN LET original == Find(objects, id)
                newObject ==
                    [original EXCEPT
                        !.id = generateId(nextId),
                        !.name = original.name \o " (Copy)"]
            IN /\ setObjectsWithHistory(historyIndex, [fn |-> "append", items |-> <<newObject>>],
                                        newObject.id, isDragging, livePosition,
                                        liveRotation, controls)
               /\ nextId' = nextId + 1
       ELSE \* if (!original) return
            /\ probe' = NoProbe
            /\ UNCHANGED <<history, historyIndex, selectedId, nextId, mesh, isDragging,
                           livePosition, liveRotation, controls, fault, abandoned>>
    /\ UNCHANGED <<viewVars, transformMode, snapEnabled, isGenerating, request>>

\* handleDuplicateObject without the id: generateId() line: the copy keeps
\* the id the spread of original gave it
handleDuplicateObjectSameId(id) ==
    /\ ~fault
    /\ IF id \in Ids(objects)
       THEN LET original == Find(objects, id)
                newObject ==
                    [original EXCEPT
                        !.name = original.name \o " (Copy)",
                        !.position = Vec(original.position.x + UnitsPerMetre \div 2,
                                         original.position.y,
                                         original.position.z + UnitsPerMetre \div 2)]
            IN /\ setObjectsWithHistory(historyIndex, [fn |-> "append", items |-> <<newObject>>],
                                        newObject.id, isDragging, livePosition,
                                        liveRotation, controls)
               /\ nextId' = nextId + 1
       ELSE /\ probe' = NoProbe
            /\ UNCHANGED <<history, historyIndex, selectedId, nextId, mesh, isDragging,
                           livePosition, liveRotation, controls, fault, abandoned>>
    /\ UNCHANGED <<viewVars, transformMode, snapEnabled, isGenerating, request>>

handleDuplicateObject(id) ==
    /\ ~fault
    /\ IF id \in Ids(objects)
       THEN LET original == Find(objects, id)
                newObject ==
                    [original EXCEPT
                        !.id = generateId(nextId),
                        !.name = original.name \o " (Copy)",
                        !.position = Vec(original.position.x + UnitsPerMetre \div 2,
                                         original.position.y,
                                         original.position.z + UnitsPerMetre \div 2)]
            IN /\ setObjectsWithHistory(historyIndex, [fn |-> "append", items |-> <<newObject>>],
                                        newObject.id, isDragging, livePosition,
                                        liveRotation, controls)
               /\ nextId' = nextId + 1
       ELSE \* if (!original) return
            /\ probe' = NoProbe
            /\ UNCHANGED <<history, historyIndex, selectedId, nextId, mesh, isDragging,
                           livePosition, liveRotation, controls, fault, abandoned>>
    /\ UNCHANGED <<viewVars, transformMode, snapEnabled, isGenerating, request>>

handleToggleVisibility(id) ==
    /\ ~fault
    /\ setObjectsWithHistory(historyIndex,
            [fn |-> "toggle", id |-> id],
            selectedId, isDragging, livePosition, liveRotation, controls)
    /\ UNCHANGED <<viewVars, transformMode, snapEnabled, isGenerating, request, nextId>>

\* The commit handleUpdateObject makes; drag, live, rot, ctl as the caller left them
UpdateCommit(id, updates, drag, live, rot, ctl) ==
    setObjectsWithHistory(historyIndex,
        [fn |-> "update", id |-> id, updates |-> updates],
        selectedId, drag, live, rot, ctl)

\* Partial<SceneObject> values the panels send
Updates == { [name |-> "Top"] }

handleUpdateObject(id, updates) ==
    /\ ~fault
    /\ UpdateCommit(id, updates, isDragging, livePosition, liveRotation, controls)
    /\ UNCHANGED <<viewVars, transformMode, snapEnabled, isGenerating, request, nextId>>

setTransformMode(mode) ==
    /\ ~fault
    /\ transformMode' = mode
    /\ probe' = NoProbe
    /\ UNCHANGED <<viewVars, history, historyIndex, selectedId, snapEnabled, isGenerating,
                   request, nextId, mesh, isDragging, livePosition,
                   liveRotation, controls, fault, abandoned>>

\* onClick={() => setSnapEnabled(!snapEnabled)}
setSnapEnabled ==
    /\ ~fault
    /\ snapEnabled' = ~snapEnabled
    /\ probe' = NoProbe
    /\ UNCHANGED <<viewVars, history, historyIndex, selectedId, transformMode, isGenerating,
                   request, nextId, mesh, isDragging, livePosition,
                   liveRotation, controls, fault, abandoned>>

UnitTypes == {"m", "mm", "in", "ft"}

\* What a view setting leaves alone
ViewOnly ==
    /\ ~fault
    /\ probe' = NoProbe
    /\ UNCHANGED <<history, historyIndex, selectedId, transformMode, snapEnabled,
                   isGenerating, request, nextId, mesh, isDragging, livePosition,
                   liveRotation, controls, fault, abandoned>>

\* setUnit that stores the scene converted to the unit chosen: metres
\* become millimetres
setUnitConverting(u) ==
    /\ ~fault
    /\ unit' = u
    /\ history' = IF u = "mm" /\ unit # "mm"
                  THEN [history EXCEPT ![historyIndex + 1] =
                          [i \in DOMAIN objects |->
                              [objects[i] EXCEPT !.position =
                                  Vec(objects[i].position.x * 1000,
                                      objects[i].position.y * 1000,
                                      objects[i].position.z * 1000)]]]
                  ELSE history
    /\ probe' = NoProbe
    /\ UNCHANGED <<historyIndex, selectedId, transformMode, snapEnabled,
                   isGenerating, request, nextId, mesh, isDragging, livePosition,
                   liveRotation, controls, fault, abandoned>>
    /\ UNCHANGED <<showDimensions, showOrigin, showCoordinates>>

\* onChange={(e) => setUnit(e.target.value as UnitType)}
setUnit(u) ==
    /\ unit' = u
    /\ ViewOnly
    /\ UNCHANGED <<showDimensions, showOrigin, showCoordinates>>

\* onClick={() => setShowDimensions(!showDimensions)}
setShowDimensions ==
    /\ showDimensions' = ~showDimensions
    /\ ViewOnly
    /\ UNCHANGED <<unit, showOrigin, showCoordinates>>

\* onClick={() => setShowOrigin(!showOrigin)}
setShowOrigin ==
    /\ showOrigin' = ~showOrigin
    /\ ViewOnly
    /\ UNCHANGED <<unit, showDimensions, showCoordinates>>

\* setShowCoordinates(!showCoordinates)
setShowCoordinates ==
    /\ showCoordinates' = ~showCoordinates
    /\ ViewOnly
    /\ UNCHANGED <<unit, showDimensions, showOrigin>>

---------------------------------------------------------------------------
(* Scene generation *)

Prompts == {"", "a table"}

\* AIPrompt.handleSubmit up to the await inside handleGenerateScene
handleSubmit(prompt) ==
    /\ ~fault
    /\ ~isGenerating            \* the submit button and the textarea are disabled
    /\ IF prompt = ""           \* if (!prompt.trim()) return
       THEN UNCHANGED <<isGenerating, request>>
       ELSE /\ isGenerating' = TRUE
            /\ request' = historyIndex
    /\ probe' = NoProbe
    /\ UNCHANGED <<viewVars, history, historyIndex, selectedId, transformMode, snapEnabled,
                   nextId, mesh, isDragging, livePosition, liveRotation,
                   controls, fault, abandoned>>

ItemA == [name |-> "Table", type |-> "BOX", position |-> Vec(0, 5000, 0),
          rotation |-> Vec(0, 0, 0), scale |-> Vec(20000, 1000, 10000),
          color |-> "#a0522d"]

ItemB == [name |-> "Ball", type |-> "SPHERE", position |-> Vec(0, 15000, 0),
          rotation |-> Vec(0, 0, 0), scale |-> Vec(10000, 10000, 10000),
          color |-> "#ff0000"]

\* an item of the response that lacks its position
ItemBad == [name |-> "Table", type |-> "BOX", position |-> UndefinedVec,
            rotation |-> Vec(0, 0, 0), scale |-> Vec(20000, 1000, 10000),
            color |-> "#a0522d"]

\* What the service call can end with
Responses ==
    { [kind |-> "noKey"], [kind |-> "rejected"], [kind |-> "emptyText"],
      [kind |-> "unparsable"], [kind |-> "noObjects"],
      [kind |-> "json", objects |-> <<ItemA>>],
      [kind |-> "json", objects |-> <<ItemA, ItemB>>],
      [kind |-> "json", objects |-> <<ItemBad>>] }

\* generateSceneFromPrompt: the promise's outcome for a response
generateSceneFromPrompt(response) ==
    CASE response.kind = "emptyText" -> [ok |-> TRUE, objects |-> <<>>]
      [] response.kind = "json" ->
            [ok |-> TRUE,
             objects |-> [i \in DOMAIN response.objects |->
                            [id |-> generateId(nextId + i - 1),
                             name |-> response.objects[i].name,
                             type |-> response.objects[i].type,
                             position |-> response.objects[i].position,
                             rotation |-> response.objects[i].rotation,
                             scale |-> response.objects[i].scale,
                             color |-> response.objects[i].color,
                             visible |-> TRUE]]]
      [] OTHER -> [ok |-> FALSE]     \* throw error

\* newObjects.map(obj => ({ ...obj, materialType: MaterialType.STANDARD }))
objectsWithMaterial(newObjects) ==
    [i \in DOMAIN newObjects |->
        [id |-> newObjects[i].id, name |-> newObjects[i].name,
         type |-> newObjects[i].type, position |-> newObjects[i].position,
         rotation |-> newObjects[i].rotation, scale |-> newObjects[i].scale,
         color |-> newObjects[i].color, materialType |-> "STANDARD",
         visible |-> newObjects[i].visible, text |-> ""]]

\* handleGenerateScene after the await: it still holds the
\* handleGenerateScene with the reset in the try block instead of finally
handleGenerateSceneSettledWithoutFinally(response) ==
    /\ ~fault
    /\ isGenerating
    /\ LET result == generateSceneFromPrompt(response)
       IN IF result.ok
          THEN LET batch == objectsWithMaterial(result.objects)
               IN /\ setObjectsWithHistory(request, [fn |-> "append", items |-> batch],
                        IF Len(batch) > 0 THEN batch[1].id ELSE selectedId,
                        isDragging, livePosition, liveRotation, controls)
                  /\ nextId' = nextId + Len(batch)
                  /\ isGenerating' = FALSE
          ELSE /\ probe' = [phase |-> "alert"]
               /\ isGenerating' = isGenerating
               /\ UNCHANGED <<history, historyIndex, selectedId, nextId, mesh,
                              isDragging, livePosition, liveRotation, controls,
                              fault, abandoned>>
    /\ request' = NoRequest
    /\ UNCHANGED <<viewVars, transformMode, snapEnabled>>

\* setObjectsWithHistory of the render in which it was called
handleGenerateSceneSettled(response) ==
    /\ ~fault
    /\ isGenerating
    /\ LET result == generateSceneFromPrompt(response)
       IN IF result.ok
          THEN LET batch == objectsWithMaterial(result.objects)
               IN /\ setObjectsWithHistory(request, [fn |-> "append", items |-> batch],
                        IF Len(batch) > 0 THEN batch[1].id ELSE selectedId,
                        isDragging, livePosition, liveRotation, controls)
                  /\ nextId' = nextId + Len(batch)
          ELSE \* catch: console.error and alert
               /\ probe' = [phase |-> "alert"]
               /\ UNCHANGED <<history, historyIndex, selectedId, nextId, mesh,
                              isDragging, livePosition, liveRotation, controls,
                              fault, abandoned>>
    /\ isGenerating' = FALSE    \* finally
    /\ request' = NoRequest
    /\ UNCHANGED <<viewVars, transformMode, snapEnabled>>

---------------------------------------------------------------------------
(* The transform gizmo of the selected SceneItem *)

snapThreshold == 2500

Abs(n) == IF n < 0 THEN -n ELSE n

Max(a, b) == IF a > b THEN a ELSE b

\* DistanceBelow that also accepts a distance of exactly the limit
DistanceAtMost(a, b, limit) ==
    /\ limit > 0
    /\ (a.x - b.x) * (a.x - b.x) + (a.y - b.y) * (a.y - b.y)
         + (a.z - b.z) * (a.z - b.z) <= limit * limit

\* a.distanceTo(b) < limit, decided on the squares
DistanceBelow(a, b, limit) ==
    /\ limit > 0
    /\ (a.x - b.x) * (a.x - b.x) + (a.y - b.y) * (a.y - b.y)
         + (a.z - b.z) * (a.z - b.z) < limit * limit

\* SnapAxis with the sum of the two extents for their half
SnapAxisNoHalving(cur, otherPos, selfScale, otherScale, kept) ==
    LET combinedHalfWidth == selfScale + otherScale
    IN IF Abs(cur - otherPos - combinedHalfWidth) < snapThreshold
       THEN otherPos + combinedHalfWidth
       ELSE IF Abs(cur - otherPos + combinedHalfWidth) < snapThreshold
            THEN otherPos - combinedHalfWidth
            ELSE kept

\* SnapAxis that snaps only below half the threshold
SnapAxisHalfThreshold(cur, otherPos, selfScale, otherScale, kept) ==
    LET combinedHalfWidth == (selfScale + otherScale) \div 2
    IN IF 2 * Abs(cur - otherPos - combinedHalfWidth) < snapThreshold
       THEN otherPos + combinedHalfWidth
       ELSE IF 2 * Abs(cur - otherPos + combinedHalfWidth) < snapThreshold
            THEN otherPos - combinedHalfWidth
            ELSE kept

\* SnapAxis that tests the negative face first
SnapAxisNegativeFirst(cur, otherPos, selfScale, otherScale, kept) ==
    LET combinedHalfWidth == (selfScale + otherScale) \div 2
    IN IF Abs(cur - otherPos + combinedHalfWidth) < snapThreshold
       THEN otherPos - combinedHalfWidth
       ELSE IF Abs(cur - otherPos - combinedHalfWidth) < snapThreshold
            THEN otherPos + combinedHalfWidth
            ELSE kept

\* One axis of the snap against one other object: cur is the coordinate
\* of currentPos, kept is mesh.position's coordinate so far.  Scales are
\* even multiples of the unit, so the halving is exact.
SnapAxis(cur, otherPos, selfScale, otherScale, kept) ==
    LET combinedHalfWidth == (selfScale + otherScale) \div 2
    IN IF Abs(cur - otherPos - combinedHalfWidth) < snapThreshold
       THEN otherPos + combinedHalfWidth
       ELSE IF Abs(cur - otherPos + combinedHalfWidth) < snapThreshold
            THEN otherPos - combinedHalfWidth
            ELSE kept

\* SnapStep that snaps against hidden objects too
SnapStepHiddenToo(object, other, currentPos, pos) ==
    IF other.id = object.id THEN pos
    ELSE IF DistanceBelow(other.position, currentPos,
                          Max(object.scale.x, other.scale.x) + snapThreshold)
         THEN Vec(SnapAxis(currentPos.x, other.position.x, object.scale.x, other.scale.x, pos.x),
                  SnapAxis(currentPos.y, other.position.y, object.scale.y, other.scale.y, pos.y),
                  SnapAxis(currentPos.z, other.position.z, object.scale.z, other.scale.z, pos.z))
         ELSE pos

\* SnapStep whose X block also writes the face it found to Y
SnapStepLeaking(object, other, currentPos, pos) ==
    IF other.id = object.id \/ ~other.visible THEN pos
    ELSE IF DistanceBelow(other.position, currentPos,
                          Max(object.scale.x, other.scale.x) + snapThreshold)
         THEN LET x == SnapAxis(currentPos.x, other.position.x, object.scale.x, other.scale.x, pos.x)
                  y == IF x = pos.x THEN pos.y ELSE x
              IN Vec(x,
                     SnapAxis(currentPos.y, other.position.y, object.scale.y, other.scale.y, y),
                     SnapAxis(currentPos.z, other.position.z, object.scale.z, other.scale.z, pos.z))
         ELSE pos

\* SnapStep that takes the other object's thickness (its Z extent) for
\* its extent on Y
SnapStepThicknessOnY(object, other, currentPos, pos) ==
    IF other.id = object.id \/ ~other.visible THEN pos
    ELSE IF DistanceBelow(other.position, currentPos,
                          Max(object.scale.x, other.scale.x) + snapThreshold)
         THEN Vec(SnapAxis(currentPos.x, other.position.x, object.scale.x, other.scale.x, pos.x),
                  SnapAxis(currentPos.y, other.position.y, object.scale.y, other.scale.z, pos.y),
                  SnapAxis(currentPos.z, other.position.z, object.scale.z, other.scale.z, pos.z))
         ELSE pos

\* SnapStep that tests the position as adjusted so far, not currentPos
SnapStepFromAdjusted(object, other, currentPos, pos) ==
    IF other.id = object.id \/ ~other.visible THEN pos
    ELSE IF DistanceBelow(other.position, pos,
                          Max(object.scale.x, other.scale.x) + snapThreshold)
         THEN Vec(SnapAxis(pos.x, other.position.x, object.scale.x, other.scale.x, pos.x),
                  SnapAxis(pos.y, other.position.y, object.scale.y, other.scale.y, pos.y),
                  SnapAxis(pos.z, other.position.z, object.scale.z, other.scale.z, pos.z))
         ELSE pos

\* The body of the loop over allObjects for one other object
SnapStep(object, other, currentPos, pos) ==
    IF other.id = object.id \/ ~other.visible THEN pos
    ELSE IF DistanceBelow(other.position, currentPos,
                          Max(object.scale.x, other.scale.x) + snapThreshold)
         THEN Vec(SnapAxis(currentPos.x, other.position.x, object.scale.x, other.scale.x, pos.x),
                  SnapAxis(currentPos.y, other.position.y, object.scale.y, other.scale.y, pos.y),
                  SnapAxis(currentPos.z, other.position.z, object.scale.z, other.scale.z, pos.z))
         ELSE pos

\* SnapLoop that walks allObjects from its end
RECURSIVE SnapLoopBackwards(_, _, _, _)
SnapLoopBackwards(object, allObjects, currentPos, pos) ==
    IF allObjects = <<>> THEN pos
    ELSE SnapLoopBackwards(object, SubSeq(allObjects, 1, Len(allObjects) - 1), currentPos,
                           SnapStep(object, allObjects[Len(allObjects)], currentPos, pos))

\* for (const other of allObjects) { ... }: mesh.position after the loop
RECURSIVE SnapLoop(_, _, _, _)
SnapLoop(object, allObjects, currentPos, pos) ==
    IF allObjects = <<>> THEN pos
    ELSE SnapLoop(object, Tail(allObjects), currentPos,
                  SnapStep(object, Head(allObjects), currentPos, pos))

handleTransformStart(id) ==
    /\ ~fault
    /\ selectedId = id
    /\ id \in Ids(objects)
    /\ controls = NullId
    /\ isDragging' = [isDragging EXCEPT ![id] = TRUE]
    /\ controls' = id
    /\ probe' = NoProbe
    /\ UNCHANGED <<viewVars, history, historyIndex, selectedId, transformMode, snapEnabled,
                   isGenerating, request, nextId, mesh, livePosition,
                   liveRotation, fault, abandoned>>

\* Where the pointer can take the handle
DragPositions == { Vec(-2000, 270, 1524), Vec(5000, 270, 6000) }

DragRotations == { Vec(0, 1, 0) }

DragScales == { Vec(2000, 2000, 2000) }

\* Handle positions around the Sheet and around the cubes of a generated
\* scene: on faces, inside, on and beyond the snap distances
SnapPositions ==
    { Vec(-2286, 7710, 5916),
      Vec(10000, 30000, 0), Vec(12000, 30000, 0), Vec(12500, 30000, 0),
      Vec(13000, 30000, 0), Vec(12000, 30500, 300),
      Vec(11900, 30000, 3500), Vec(12000, 30000, 3500), Vec(12100, 30000, 3500),
      Vec(-4000, 90, 6096) }

\* Handle positions just above and far above the middle of a flat sheet
ScenarioPositions == { Vec(0, 1500, 500), Vec(0, 30000, 500) }

DragTargets(mode) ==
    CASE mode = "translate" -> DragPositions \cup SnapPositions \cup ScenarioPositions
      [] mode = "rotate" -> DragRotations
      [] OTHER -> DragScales

\* handleTransformChange that also reports each frame through onUpdate
handleTransformChangeReporting(id, target) ==
    /\ ~fault
    /\ controls = id
    /\ target \in DragTargets(transformMode)
    /\ LET field == CASE transformMode = "translate" -> "position"
                      [] transformMode = "rotate" -> "rotation"
                      [] OTHER -> "scale"
           moved == [mesh[id] EXCEPT ![field] = target]
       IN UpdateCommit(id, moved, isDragging,
                       [livePosition EXCEPT ![id] = moved.position],
                       liveRotation, controls)
    /\ UNCHANGED <<viewVars, transformMode, snapEnabled, isGenerating, request, nextId>>

\* handleTransformChange whose snap ignores the snap toggle
handleTransformChangeSnappingAlways(id, target) ==
    /\ ~fault
    /\ controls = id
    /\ target \in DragTargets(transformMode)
    /\ LET field == CASE transformMode = "translate" -> "position"
                      [] transformMode = "rotate" -> "rotation"
                      [] OTHER -> "scale"
           moved == [mesh[id] EXCEPT ![field] = target]
           snapping == transformMode = "translate" /\ isDragging[id]
           snapped == IF snapping
                      THEN [moved EXCEPT !.position =
                              SnapLoop(Find(objects, id), objects, moved.position, moved.position)]
                      ELSE moved
       IN /\ mesh' = [mesh EXCEPT ![id] = snapped]
          /\ liveRotation' = IF transformMode = "rotate"
                             THEN [liveRotation EXCEPT ![id] = moved.rotation]
                             ELSE liveRotation
          /\ livePosition' = [livePosition EXCEPT ![id] = snapped.position]
    /\ probe' = [phase |-> "frame", id |-> id, target |-> target,
                 snapping |-> snapEnabled /\ transformMode = "translate" /\ isDragging[id]]
    /\ UNCHANGED <<viewVars, history, historyIndex, selectedId, transformMode, snapEnabled,
                   isGenerating, request, nextId, isDragging, controls,
                   fault, abandoned>>

\* The gizmo moves the mesh (the field its mode drives), then
\* onObjectChange runs handleTransformChange
handleTransformChange(id, target) ==
    /\ ~fault
    /\ controls = id
    /\ target \in DragTargets(transformMode)
    /\ LET field == CASE transformMode = "translate" -> "position"
                      [] transformMode = "rotate" -> "rotation"
                      [] OTHER -> "scale"
           moved == [mesh[id] EXCEPT ![field] = target]
           snapping == snapEnabled /\ transformMode = "translate" /\ isDragging[id]
           snapped == IF snapping
                      THEN [moved EXCEPT !.position =
                              SnapLoop(Find(objects, id), objects, moved.position, moved.position)]
                      ELSE moved
       IN /\ mesh' = [mesh EXCEPT ![id] = snapped]
          /\ liveRotation' = IF transformMode = "rotate"
                             THEN [liveRotation EXCEPT ![id] = moved.rotation]
                             ELSE liveRotation
          /\ livePosition' = [livePosition EXCEPT ![id] = snapped.position]
    /\ probe' = [phase |-> "frame", id |-> id, target |-> target,
                 snapping |-> snapEnabled /\ transformMode = "translate" /\ isDragging[id]]
    /\ UNCHANGED <<viewVars, history, historyIndex, selectedId, transformMode, snapEnabled,
                   isGenerating, request, nextId, isDragging, controls,
                   fault, abandoned>>

handleTransformEnd(id) ==
    /\ ~fault
    /\ controls = id
    /\ UpdateCommit(id, mesh[id],
                    [isDragging EXCEPT ![id] = FALSE],
                    [livePosition EXCEPT ![id] = mesh[id].position],
                    liveRotation, NullId)
    /\ UNCHANGED <<viewVars, transformMode, snapEnabled, isGenerating, request, nextId>>

---------------------------------------------------------------------------

(* Guards that keep the model finite *)

\* Room for the snapshot a handler would append
Room == historyIndex + 2 <= MaxHistory

\* Ids left for n calls of generateId
IdsLeft(n) == nextId + n <= MaxIds

\* Room and ids for what a settled scene generation would append
SettleRoom(response) ==
    /\ request + 1 \in DOMAIN history => request + 2 <= MaxHistory
    /\ response.kind = "json" => IdsLeft(Len(response.objects))

(* The editor: every intent, undo and redo, and scene generation *)
Next ==
    \/ handleUndo
    \/ handleRedo
    \/ \E id \in IdUniverse \cup {NullId} : handleSelect(id)
    \/ \E type \in AddTypes : Room /\ IdsLeft(1) /\ handleAddObject(type)
    \/ \E id \in IdUniverse : Room /\ handleDeleteObject(id)
    \/ \E id \in IdUniverse : Room /\ IdsLeft(1) /\ handleDuplicateObject(id)
    \/ \E id \in IdUniverse : Room /\ handleToggleVisibility(id)
    \/ \E id \in IdUniverse, updates \in Updates : Room /\ handleUpdateObject(id, updates)
    \/ \E prompt \in Prompts : handleSubmit(prompt)
    \/ \E response \in Responses : SettleRoom(response) /\ handleGenerateSceneSettled(response)

Spec == Init /\ [][Next]_vars

(* The gizmo: drags of the Plank in each mode, with and without snapping,  *)
(* and the events that can cut a drag short.  The toolbar settings are     *)
(* chosen before the first drag and then left alone.                       *)
DragInit ==
    /\ history = <<INITIAL_OBJECTS>>
    /\ historyIndex = 0
    /\ selectedId = NullId
    /\ transformMode \in TransformModes
    /\ snapEnabled \in BOOLEAN
    /\ isGenerating = FALSE
    /\ request = NoRequest
    /\ nextId = 0
    /\ mesh = [id \in Ids(INITIAL_OBJECTS) |-> Transform(Find(INITIAL_OBJECTS, id))]
    /\ isDragging = [id \in Ids(INITIAL_OBJECTS) |-> FALSE]
    /\ livePosition = [id \in Ids(INITIAL_OBJECTS) |-> Find(INITIAL_OBJECTS, id).position]
    /\ liveRotation = [id \in Ids(INITIAL_OBJECTS) |-> Vec(0, 0, 0)]
    /\ controls = NullId
    /\ fault = FALSE
    /\ probe = NoProbe
    /\ abandoned = [id \in Ids(INITIAL_OBJECTS) |-> {}]
    /\ unit = "in"
    /\ showDimensions = FALSE
    /\ showOrigin = FALSE
    /\ showCoordinates = FALSE

DraggedIds == {1}

DragResponses == { [kind |-> "rejected"], [kind |-> "json", objects |-> <<ItemA>>] }

DragNext ==
    \/ \E id \in IdUniverse \cup {NullId} : handleSelect(id)
    \/ \E id \in DraggedIds : handleTransformStart(id)
    \/ \E id \in DraggedIds, target \in DragPositions \cup DragRotations \cup DragScales :
            handleTransformChange(id, target)
    \/ \E id \in DraggedIds : Room /\ handleTransformEnd(id)
    \/ handleUndo
    \/ handleRedo
    \/ \E id \in DraggedIds : Room /\ handleDeleteObject(id)
    \/ \E prompt \in Prompts : handleSubmit(prompt)
    \/ \E response \in DragResponses : SettleRoom(response) /\ handleGenerateSceneSettled(response)

DragSpec == DragInit /\ [][DragNext]_vars

(* Editing while a scene generation is pending: every intent, the gizmo   *)
(* included, on the Plank, around one request.                             *)
PendingIds == {1}

PendingResponses == { [kind |-> "rejected"], [kind |-> "json", objects |-> <<ItemA>>] }

\* Room for the snapshot an intent would append while editing around a request
PendingRoom == historyIndex + 2 <= MaxPendingHistory

PendingNext ==
    \/ \E prompt \in Prompts \ {""} : handleSubmit(prompt)
    \/ \E response \in PendingResponses : SettleRoom(response) /\ handleGenerateSceneSettled(response)
    \/ \E id \in PendingIds \cup {NullId} : handleSelect(id)
    \/ PendingRoom /\ IdsLeft(1) /\ handleAddObject("BOX")
    \/ \E id \in PendingIds : PendingRoom /\ handleDeleteObject(id)
    \/ \E id \in PendingIds : PendingRoom /\ IdsLeft(1) /\ handleDuplicateObject(id)
    \/ \E id \in PendingIds : PendingRoom /\ handleToggleVisibility(id)
    \/ \E id \in PendingIds, updates \in Updates : PendingRoom /\ handleUpdateObject(id, updates)
    \/ handleUndo
    \/ handleRedo
    \/ \E id \in PendingIds : handleTransformStart(id)
    \/ \E id \in PendingIds, target \in DragPositions : handleTransformChange(id, target)
    \/ \E id \in PendingIds : PendingRoom /\ handleTransformEnd(id)

PendingSpec == Init /\ [][PendingNext]_vars

(* Snapping: a generated scene of two unit cubes beside the initial        *)
(* objects, the Plank and the second cube dragged with snapping switched   *)
(* on or off, the first cube shown or hidden.                              *)
Cube(position) ==
    [name |-> "Cube", type |-> "BOX", position |-> position,
     rotation |-> Vec(0, 0, 0),
     scale |-> Vec(UnitsPerMetre, UnitsPerMetre, UnitsPerMetre),
     color |-> "#ffffff"]

SnapResponses ==
    { [kind |-> "json", objects |-> <<Cube(Vec(0, 30000, 0)), Cube(Vec(-13000, 30000, 0))>>],
      [kind |-> "json", objects |-> <<Cube(Vec(-12000, 90, 6096)), Cube(Vec(-14000, 90, -6000))>>] }

SnapDraggedIds == {1, 4}

SnapHiddenIds == {3}

\* The Plank is dragged onto the Sheet's faces, the cube around the other cube
SnapTargets(id) ==
    IF id = 1 THEN { Vec(-2286, 7710, 5916), Vec(12000, 30000, 0) }
    ELSE SnapPositions \ { Vec(-2286, 7710, 5916) }

SnapNext ==
    \/ \E prompt \in Prompts \ {""} : handleSubmit(prompt)
    \/ \E response \in SnapResponses : SettleRoom(response) /\ handleGenerateSceneSettled(response)
    \/ \E id \in SnapDraggedIds \cup {NullId} : handleSelect(id)
    \/ setSnapEnabled
    \/ \E id \in SnapHiddenIds : Room /\ handleToggleVisibility(id)
    \/ \E id \in SnapDraggedIds : handleTransformStart(id)
    \/ \E id \in SnapDraggedIds : \E target \in SnapTargets(id) : handleTransformChange(id, target)

SnapSpec == Init /\ [][SnapNext]_vars

(* A generated scene of a 2 x 2 x 0.1 Sheet at the origin and a            *)
(* 1 x 0.3 x 0.1 Plank, left alone once the two initial objects are        *)
(* deleted; the generated Plank is dragged with snapping on or off.        *)
ScenarioSheet ==
    [name |-> "Sheet", type |-> "BOX", position |-> Vec(0, 0, 0),
     rotation |-> Vec(0, 0, 0), scale |-> Vec(20000, 20000, 1000), color |-> "#ffffff"]

ScenarioPlank ==
    [name |-> "Plank", type |-> "BOX", position |-> Vec(50000, 50000, 50000),
     rotation |-> Vec(0, 0, 0), scale |-> Vec(10000, 3000, 1000), color |-> "#ffffff"]

ScenarioResponses == { [kind |-> "json", objects |-> <<ScenarioSheet, ScenarioPlank>>] }

ScenarioDraggedIds == {4}

\* Room for the snapshot an intent would append on the way to the scene
ScenarioRoom == historyIndex + 2 <= MaxScenarioHistory

ScenarioNext ==
    \/ \E prompt \in Prompts \ {""} : handleSubmit(prompt)
    \/ \E response \in ScenarioResponses : SettleRoom(response) /\ handleGenerateSceneSettled(response)
    \/ \E id \in Ids(INITIAL_OBJECTS) : ScenarioRoom /\ handleDeleteObject(id)
    \/ \E id \in ScenarioDraggedIds \cup {NullId} : handleSelect(id)
    \/ setSnapEnabled
    \/ \E id \in ScenarioDraggedIds : handleTransformStart(id)
    \/ \E id \in ScenarioDraggedIds, target \in ScenarioPositions : handleTransformChange(id, target)
    \/ handleUndo
    \/ handleRedo

ScenarioSpec == Init /\ [][ScenarioNext]_vars

(* The toolbar: view settings, transform mode, snap toggle and selection, *)
(* around a history of added objects.                                      *)
ViewIds == {1, 3}

ViewNext ==
    \/ \E u \in UnitTypes : setUnit(u)
    \/ setShowDimensions
    \/ setShowOrigin
    \/ setShowCoordinates
    \/ \E mode \in TransformModes : setTransformMode(mode)
    \/ setSnapEnabled
    \/ \E id \in ViewIds \cup {NullId} : handleSelect(id)
    \/ Room /\ IdsLeft(1) /\ handleAddObject("BOX")
    \/ handleUndo
    \/ handleRedo

ViewSpec == Init /\ [][ViewNext]_vars

---------------------------------------------------------------------------
(* Properties *)

\* C1: in every reachable state 0 <= cursor < snapshots.length, so the
\* current snapshot is always defined.
CursorInRange == 0 <= historyIndex /\ historyIndex < Len(history)

\* C2: every commit from snapshots S and cursor c yields S[0..c] followed
\* by the new snapshot, with cursor = c + 1 = snapshots.length - 1 (so
\* canRedo is false and the redo branch is gone).
CommitTruncatesAndAppends ==
    [][probe'.phase = "commit" =>
          /\ history' = SubSeq(history, 1, historyIndex + 1) \o <<probe'.snapshot>>
          /\ historyIndex' = historyIndex + 1
          /\ historyIndex' = Len(history') - 1]_vars

\* The step is the settling of a scene generation that did not fail
SettledWithObjects == isGenerating /\ ~isGenerating' /\ probe'.phase # "alert"

\* C3: a generation response is applied as one commit on top of the cursor
\* as it is at arrival: history is cut to [0..cursor at arrival], exactly
\* one snapshot (the snapshot current at arrival followed by the batch) is
\* appended, and the cursor points to it.
ResponseCommitsOnArrivalCursor ==
    [][SettledWithObjects =>
          /\ Len(history') = historyIndex + 2
          /\ SubSeq(history', 1, historyIndex + 1) = SubSeq(history, 1, historyIndex + 1)
          /\ historyIndex' = historyIndex + 1
          /\ \E response \in Responses :
                /\ generateSceneFromPrompt(response).ok
                /\ history'[historyIndex + 2] =
                      objects \o objectsWithMaterial(generateSceneFromPrompt(response).objects)]_vars

\* C4: commit(S) followed by undo() makes the current snapshot the one that
\* was current before the commit, and a following redo() makes it S again.
UndoRedoInverse ==
    /\ probe.phase = "undo" => HasObjects /\ objects = probe.before
    /\ probe.phase = "redo" => HasObjects /\ objects = probe.snapshot

\* C5: undo at cursor 0 and redo at the last snapshot change neither the
\* snapshots nor the cursor and raise no fault; otherwise undo lowers the
\* cursor by exactly 1 and redo raises it by exactly 1, and both leave the
\* snapshots unchanged.
UndoRedoStepByOne ==
    [][/\ handleUndo =>
            /\ history' = history
            /\ historyIndex' = IF historyIndex = 0 THEN historyIndex ELSE historyIndex - 1
            /\ historyIndex = 0 => ~fault'
       /\ handleRedo =>
            /\ history' = history
            /\ historyIndex' = IF historyIndex = Len(history) - 1
                               THEN historyIndex ELSE historyIndex + 1
            /\ historyIndex = Len(history) - 1 => ~fault']_vars

\* An undo was ignored at cursor 0 while later snapshots exist
UndoIgnoredAtStart ==
    /\ probe.phase = "undoIgnored"
    /\ historyIndex = 0
    /\ Len(history) > 1
    /\ ~fault

\* C6: updateObject with an id that is not in the current snapshot is a
\* no-op: snapshots and cursor (hence canUndo and canRedo) are unchanged
\* and no fault is raised.
UpdateUnknownIdIsNoOp ==
    [][\A id \in IdUniverse, updates \in Updates :
          (~fault /\ id \notin Ids(objects) /\ handleUpdateObject(id, updates)) =>
              /\ UNCHANGED <<history, historyIndex>>
              /\ ~fault']_vars

\* C7: a completed drag makes exactly one commit: the press and every
\* frame leave snapshots and cursor unchanged, and the release appends
\* exactly one snapshot after the cursor.
OneCommitPerDrag ==
    [][\A id \in DraggedIds :
          /\ handleTransformStart(id) => UNCHANGED <<history, historyIndex>>
          /\ \A target \in DragPositions \cup DragRotations \cup DragScales :
                handleTransformChange(id, target) => UNCHANGED <<history, historyIndex>>
          /\ handleTransformEnd(id) =>
                /\ Len(history') = historyIndex + 2
                /\ SubSeq(history', 1, historyIndex + 1) = SubSeq(history, 1, historyIndex + 1)
                /\ historyIndex' = historyIndex + 1]_vars

\* A drag of the Plank over at least one frame was released and committed
\* the position the frame left
DragCommitted ==
    /\ probe.phase = "commit"
    /\ controls = NullId
    /\ HasObjects
    /\ objects = probe.snapshot
    /\ 1 \in Ids(objects)
    /\ Find(objects, 1).position \in DragPositions

\* C8: the snapshot committed on release is the snapshot current at release
\* with only the dragged object's position, rotation and scale replaced by
\* the handle's final values: every other object, the order of the objects
\* and the dragged object's other fields are unchanged.
ReleaseReplacesTransformOnly ==
    [][\A id \in DraggedIds :
          handleTransformEnd(id) =>
              LET committed == history'[Len(history')]
              IN /\ Len(committed) = Len(objects)
                 /\ \A i \in DOMAIN objects :
                       committed[i] =
                          IF objects[i].id = id
                          THEN [objects[i] EXCEPT !.position = mesh[id].position,
                                                  !.rotation = mesh[id].rotation,
                                                  !.scale = mesh[id].scale]
                          ELSE objects[i]]_vars

\* A release committed a new scale of the Plank beside the untouched Sheet
ScaleDragCommitted ==
    /\ probe.phase = "commit"
    /\ controls = NullId
    /\ Ids(probe.before) = {1, 2}
    /\ Ids(probe.snapshot) = {1, 2}
    /\ Find(probe.before, 1).scale \notin DragScales
    /\ Find(probe.snapshot, 1).scale \in DragScales
    /\ Find(probe.snapshot, 1).name = "Plank"

\* C9: a drag that is cut short without a release causes no commit of its
\* own, and no snapshot holding the transform the handle had when the drag
\* was cut short is ever appended.
AbandonedTransformNeverCommitted ==
    [][\A id \in DOMAIN abandoned :
          (probe'.phase = "commit" /\ id \in Ids(probe'.snapshot)) =>
              Transform(Find(probe'.snapshot, id)) \notin abandoned[id]]_vars

\* The call failed, or its response lacks the objects or an object's position
GenerationFails(response) ==
    \/ response.kind \in {"noKey", "rejected", "unparsable", "noObjects"}
    \/ /\ response.kind = "json"
       /\ \E i \in DOMAIN response.objects : ~IsVec(response.objects[i].position)

\* C10: when the generation call fails (no key, rejection, unparsable or
\* malformed response) no commit occurs, snapshots and cursor stay as they
\* are, and the failure is reported once.
FailedGenerationCommitsNothing ==
    [][\A response \in Responses :
          (GenerationFails(response) /\ handleGenerateSceneSettled(response)) =>
              /\ UNCHANGED <<history, historyIndex>>
              /\ probe'.phase = "alert"]_vars

IdsUniqueInEverySnapshot ==
    \A k \in DOMAIN history :
        \A i, j \in DOMAIN history[k] :
            history[k][i].id = history[k][j].id => i = j

\* A snapshot holds an added or duplicated object and a generated batch
\* beside the initial objects
SnapshotWithNewIds ==
    /\ HasObjects
    /\ {1, 2} \subseteq Ids(objects)
    /\ \E i, j \in DOMAIN objects :
          /\ i < j
          /\ objects[i].id > InitialIds
          /\ objects[i].name \in {"Plank (Copy)", "Sheet (Copy)", "New box"}
          /\ objects[j].name = "Table"

\* The step cuts the history after the cursor and appends snapshot
AppendsSnapshot(snapshot) ==
    /\ history' = SubSeq(history, 1, historyIndex + 1) \o <<snapshot>>
    /\ historyIndex' = historyIndex + 1

\* objects with the object of this id given these fields
WithFields(id, fields) ==
    [i \in DOMAIN objects |->
        IF objects[i].id = id
        THEN [f \in DOMAIN objects[i] |->
                IF f \in DOMAIN fields THEN fields[f] ELSE objects[i][f]]
        ELSE objects[i]]

\* Every intent can be taken, whether or not a request is pending; the
\* gizmo's events need the gizmo, as they do without a request
IntentsEnabled ==
    /\ ENABLED handleUndo
    /\ ENABLED handleRedo
    /\ ENABLED handleAddObject("BOX")
    /\ \A id \in PendingIds :
          /\ ENABLED handleDeleteObject(id)
          /\ ENABLED handleDuplicateObject(id)
          /\ ENABLED handleToggleVisibility(id)
          /\ \A updates \in Updates : ENABLED handleUpdateObject(id, updates)
          /\ (ENABLED handleTransformStart(id))
                <=> (selectedId = id /\ id \in Ids(objects) /\ controls = NullId)
          /\ \A target \in DragPositions :
                (ENABLED handleTransformChange(id, target))
                   <=> (controls = id /\ transformMode = "translate")
          /\ (ENABLED handleTransformEnd(id)) <=> (controls = id)

\* What each intent does to history and cursor, stated without reference
\* to isGenerating or to the pending request
IntentEffects ==
    /\ handleUndo =>
          /\ history' = history
          /\ historyIndex' = IF historyIndex > 0 THEN historyIndex - 1 ELSE historyIndex
    /\ handleRedo =>
          /\ history' = history
          /\ historyIndex' = IF historyIndex < Len(history) - 1
                             THEN historyIndex + 1 ELSE historyIndex
    /\ handleAddObject("BOX") => AppendsSnapshot(Append(objects, NewObject("BOX")))
    /\ \A id \in PendingIds :
          /\ handleDeleteObject(id) => AppendsSnapshot(FilterOut(objects, id))
          /\ handleDuplicateObject(id) =>
                IF id \in Ids(objects)
                THEN /\ AppendsSnapshot(history'[Len(history')])
                     /\ Len(history'[Len(history')]) = Len(objects) + 1
                     /\ SubSeq(history'[Len(history')], 1, Len(objects)) = objects
                ELSE UNCHANGED <<history, historyIndex>>
          /\ handleToggleVisibility(id) =>
                AppendsSnapshot(IF id \in Ids(objects)
                                THEN WithFields(id, [visible |-> ~Find(objects, id).visible])
                                ELSE objects)
          /\ \A updates \in Updates :
                handleUpdateObject(id, updates) => AppendsSnapshot(WithFields(id, updates))
          /\ handleTransformStart(id) => UNCHANGED <<history, historyIndex>>
          /\ \A target \in DragPositions :
                handleTransformChange(id, target) => UNCHANGED <<history, historyIndex>>
          /\ handleTransformEnd(id) => AppendsSnapshot(WithFields(id, mesh[id]))

\* C12: while a generation request is pending every intent (add, delete,
\* duplicate, update, toggle, undo, redo, drag start / change / end) stays
\* enabled and has the effect on history and cursor it has without a
\* pending request.
EditingUnaffectedByPending ==
    /\ [](isGenerating /\ ~fault => IntentsEnabled)
    /\ [][IntentEffects]_vars

\* During a pending request the Plank was dragged, released and committed
DragCommittedWhilePending ==
    /\ isGenerating
    /\ probe.phase = "commit"
    /\ controls = NullId
    /\ HasObjects
    /\ objects = probe.snapshot
    /\ 1 \in Ids(objects)
    /\ 1 \in Ids(probe.before)
    /\ Find(objects, 1).position \in DragPositions
    /\ Find(probe.before, 1).position \notin DragPositions

---------------------------------------------------------------------------
(* Snapping, observed in the state right after a frame of the gizmo on     *)
(* which the snap code ran: probe holds the proposed position, the mesh    *)
(* the position the frame left.                                            *)
SnapFrame == ~fault /\ probe.phase = "frame" /\ probe.snapping

Axes == {"x", "y", "z"}

Moving == Find(objects, probe.id)

Snapped == mesh[probe.id].position

IsCandidate(o) == o.visible /\ o.id # probe.id

Candidates == SelectSeq(objects, IsCandidate)

DistanceSquared(a, b) ==
    (a.x - b.x) * (a.x - b.x) + (a.y - b.y) * (a.y - b.y) + (a.z - b.z) * (a.z - b.z)

BroadPhaseLimit(c) == Max(Moving.scale.x, c.scale.x) + snapThreshold

BelowLimit(c) ==
    DistanceSquared(c.position, probe.target) < BroadPhaseLimit(c) * BroadPhaseLimit(c)

UpToLimit(c) ==
    DistanceSquared(c.position, probe.target) <= BroadPhaseLimit(c) * BroadPhaseLimit(c)

CombinedHalfWidth(c, axis) == (Moving.scale[axis] + c.scale[axis]) \div 2

PositiveFace(c, axis) == c.position[axis] + CombinedHalfWidth(c, axis)

NegativeFace(c, axis) == c.position[axis] - CombinedHalfWidth(c, axis)

Within(a, b) == Abs(a - b) < snapThreshold

Matches(c, axis) ==
    \/ Within(probe.target[axis], PositiveFace(c, axis))
    \/ Within(probe.target[axis], NegativeFace(c, axis))

MatchedFace(c, axis) ==
    IF Within(probe.target[axis], PositiveFace(c, axis))
    THEN PositiveFace(c, axis) ELSE NegativeFace(c, axis)

\* The candidates in cands written one after the other onto pos, each
\* axis onto the face it matches, with no test of who the candidate is
RECURSIVE FacesOf(_, _)
FacesOf(cands, pos) ==
    IF cands = <<>> THEN pos
    ELSE LET c == Head(cands)
         IN FacesOf(Tail(cands),
                    [axis \in Axes |-> IF Matches(c, axis) THEN MatchedFace(c, axis)
                                       ELSE pos[axis]])

\* C14: the candidates of a snap are exactly the visible objects of the
\* current snapshot whose id is not the moving object's; their positions
\* and scales are the snapshot's, whatever the live handles of other
\* objects show.
CandidatesFromSnapshot ==
    SnapFrame => Snapped = FacesOf(SelectSeq(Candidates, BelowLimit), probe.target)

\* The second cube was dragged beside the hidden first cube and was not
\* snapped to it
DraggedBesideHiddenCube ==
    /\ SnapFrame
    /\ probe.id = 4
    /\ probe.target = Vec(12000, 30000, 0)
    /\ \E i \in DOMAIN objects :
          /\ objects[i].id = 3
          /\ ~objects[i].visible
          /\ objects[i].position = Vec(0, 30000, 0)
    /\ Snapped = probe.target

\* The candidates the broad phase lets through, in the snapshot's order
Passing == SelectSeq(Candidates, BelowLimit)

\* mesh.position once the loop has run over the first n of them
After(n) == SnapLoop(Moving, SubSeq(Passing, 1, n), probe.target, probe.target)

\* C15: for each candidate passing the broad phase and each axis, with
\* combinedHalfWidth half the sum of the two extents on that axis: a
\* proposed coordinate within snapThreshold of the candidate's position
\* plus combinedHalfWidth is overwritten with exactly that face, else one
\* within snapThreshold of position minus combinedHalfWidth with that
\* face, and otherwise the candidate leaves the coordinate as it was.
AxisSnapsToMatchedFace ==
    SnapFrame =>
        /\ Snapped = After(Len(Passing))
        /\ \A n \in 1..Len(Passing), axis \in Axes :
              LET c == Passing[n]
                  halfWidth == (Moving.scale[axis] + c.scale[axis]) \div 2
                  proposed == probe.target[axis]
              IN After(n)[axis] =
                    IF Abs(proposed - (c.position[axis] + halfWidth)) < snapThreshold
                    THEN c.position[axis] + halfWidth
                    ELSE IF Abs(proposed - (c.position[axis] - halfWidth)) < snapThreshold
                         THEN c.position[axis] - halfWidth
                         ELSE After(n - 1)[axis]

\* A frame in which one coordinate went to a positive face, one to a
\* negative face and one was left alone
PositiveAndNegativeFaceTaken ==
    /\ SnapFrame
    /\ \E n \in 1..Len(Passing), axis \in Axes :
          /\ Within(probe.target[axis], PositiveFace(Passing[n], axis))
          /\ probe.target[axis] # PositiveFace(Passing[n], axis)
          /\ After(n)[axis] = PositiveFace(Passing[n], axis)
    /\ \E n \in 1..Len(Passing), axis \in Axes :
          /\ ~Within(probe.target[axis], PositiveFace(Passing[n], axis))
          /\ Within(probe.target[axis], NegativeFace(Passing[n], axis))
          /\ probe.target[axis] # NegativeFace(Passing[n], axis)
          /\ After(n)[axis] = NegativeFace(Passing[n], axis)
    /\ \E n \in 1..Len(Passing), axis \in Axes :
          /\ ~Matches(Passing[n], axis)
          /\ After(n)[axis] = probe.target[axis]

\* C16 as stated: a candidate is skipped exactly when its distance from
\* the proposed position exceeds max(moving X extent, candidate X extent)
\* + snapThreshold, so a candidate at exactly that distance is snapped to.
SkippedBeyondLimitOnly ==
    SnapFrame => Snapped = FacesOf(SelectSeq(Candidates, UpToLimit), probe.target)

\* C16: a candidate is skipped exactly when its distance from the proposed
\* position is at least max(moving X extent, candidate X extent)
\* + snapThreshold; a candidate at exactly that distance is skipped.
SkippedFromLimitOn ==
    /\ SnapFrame => Snapped = FacesOf(Passing, probe.target)
    /\ SnapFrame =>
          \A n \in 1..Len(Candidates) :
             LET c == Candidates[n]
                 limit == Max(Moving.scale.x, c.scale.x) + snapThreshold
             IN DistanceSquared(c.position, probe.target) >= limit * limit
                   => Snapped = FacesOf(SelectSeq(SubSeq(Candidates, 1, n - 1)
                                                    \o SubSeq(Candidates, n + 1, Len(Candidates)),
                                                  BelowLimit),
                                        probe.target)

\* The second cube was dragged to exactly 1.25 from the first cube, inside
\* the snap distance of its face on X, and was left where it was put
DraggedToExactlyTheLimit ==
    /\ SnapFrame
    /\ probe.id = 4
    /\ probe.target = Vec(12000, 30000, 3500)
    /\ \E n \in 1..Len(Candidates) :
          /\ Candidates[n].id = 3
          /\ Candidates[n].position = Vec(0, 30000, 0)
          /\ DistanceSquared(Candidates[n].position, probe.target)
                = BroadPhaseLimit(Candidates[n]) * BroadPhaseLimit(Candidates[n])
          /\ Matches(Candidates[n], "x")
    /\ Snapped = probe.target

\* Where in Passing the candidates matching the proposed coordinate on axis are
MatchingAt(axis) == { n \in 1..Len(Passing) : Matches(Passing[n], axis) }

Last(S) == CHOOSE n \in S : \A m \in S : m <= n

\* C17: when several candidates match on one axis, the coordinate ends on
\* the face of the last of them in the snapshot's order, however near the
\* earlier ones are.
LastMatchingCandidateWins ==
    SnapFrame =>
        \A axis \in Axes :
            MatchingAt(axis) # {} =>
                Snapped[axis] = MatchedFace(Passing[Last(MatchingAt(axis))], axis)

\* Two candidates matched on one axis with different faces, the earlier
\* one nearer, and the coordinate went to the later one's face
FartherLaterCandidateTaken ==
    /\ SnapFrame
    /\ \E axis \in Axes : \E m, n \in MatchingAt(axis) :
          /\ m < n
          /\ n = Last(MatchingAt(axis))
          /\ MatchedFace(Passing[m], axis) # MatchedFace(Passing[n], axis)
          /\ Abs(probe.target[axis] - MatchedFace(Passing[m], axis))
                < Abs(probe.target[axis] - MatchedFace(Passing[n], axis))
          /\ Snapped[axis] = MatchedFace(Passing[n], axis)

\* C18: a coordinate that matches no face of any candidate on its own
\* axis keeps its proposed value, whatever matched on the other axes.
AxesIndependent ==
    SnapFrame =>
        \A axis \in Axes :
            MatchingAt(axis) = {} => Snapped[axis] = probe.target[axis]

\* The second cube matched the first on X only: X went to the face, Y and
\* Z stayed as proposed
SnappedOnXOnly ==
    /\ SnapFrame
    /\ probe.id = 4
    /\ probe.target = Vec(12000, 30500, 300)
    /\ MatchingAt("x") # {}
    /\ MatchingAt("y") = {}
    /\ MatchingAt("z") = {}
    /\ Snapped = Vec(10000, 30500, 300)

\* The proposed position lies exactly on a face of some candidate on every axis
OnFaceOnEveryAxis ==
    \A axis \in Axes : \E n \in 1..Len(Candidates) :
        \/ probe.target[axis] = PositiveFace(Candidates[n], axis)
        \/ probe.target[axis] = NegativeFace(Candidates[n], axis)

\* C19: a proposed position that already lies exactly on a candidate face
\* on every axis is left unchanged by the snap, whatever the candidates.
SnapIdempotentAtRest ==
    SnapFrame /\ OnFaceOnEveryAxis => Snapped = probe.target

ScenarioFrame ==
    /\ SnapFrame
    /\ Len(objects) = 2
    /\ objects[1].name = "Sheet"
    /\ objects[1].visible
    /\ objects[1].position = Vec(0, 0, 0)
    /\ objects[1].scale = Vec(20000, 20000, 1000)
    /\ objects[2].name = "Plank"
    /\ objects[2].scale = Vec(10000, 3000, 1000)
    /\ probe.id = objects[2].id
    /\ probe.target = Vec(0, 1500, 500)

\* C21 as stated: in the scenario the adjusted Y is 0 + (0.1 + 0.3)/2 = 0.2.
ScenarioYAdjusted == ScenarioFrame => Snapped.y = 2000

\* C21: in the scenario the adjusted Y is the proposed 0.15: on Y the
\* combined half-width is (2 + 0.3)/2 = 1.15, so neither Y face of the
\* Sheet is within snapThreshold; X stays 0 and Z goes to the Sheet's
\* positive face 0 + (0.1 + 0.1)/2 = 0.1.
ScenarioYKept == ScenarioFrame => Snapped = Vec(0, 1500, 1000)

\* The scenario was played and the frame left the Plank at (0, 0.15, 0.1)
ScenarioPlayed == ScenarioFrame /\ Snapped = Vec(0, 1500, 1000)

\* C22: a frame of the gizmo changes the handle's position beyond what the
\* gizmo itself set only in translate mode with snap enabled while
\* dragging: in rotate or scale mode the position stays as it was before
\* the frame, in translate mode without snap (or when not dragging) it is
\* the proposed position; the rotation and the scale are in every case
\* what the gizmo set or what they were.
SnapTouchesPositionOnly ==
    [][\A id \in DraggedIds : \A target \in DragPositions \cup DragRotations \cup DragScales :
          handleTransformChange(id, target) =>
             /\ mesh'[id].rotation =
                   IF transformMode = "rotate" THEN target ELSE mesh[id].rotation
             /\ mesh'[id].scale =
                   IF transformMode = "scale" THEN target ELSE mesh[id].scale
             /\ ~(snapEnabled /\ transformMode = "translate" /\ isDragging[id]) =>
                   mesh'[id].position =
                      IF transformMode = "translate" THEN target ELSE mesh[id].position
             /\ \A other \in DOMAIN mesh \ {id} : mesh'[other] = mesh[other]]_vars

\* A frame on which the snap moved the Plank off the proposed position and
\* left its rotation and scale as the snapshot has them
SnapMovedPositionOnly ==
    /\ SnapFrame
    /\ probe.id = 1
    /\ Snapped # probe.target
    /\ mesh[1].rotation = Find(objects, 1).rotation
    /\ mesh[1].scale = Find(objects, 1).scale

\* Every id of every snapshot of the history
IdsInHistory == UNION { Ids(history[k]) : k \in DOMAIN history }

\* C23: handleDuplicateObject(id) for an id of the current snapshot makes
\* exactly one commit whose snapshot is the current snapshot plus, at the
\* end, a clone with a new id, the original's name with a suffix, the
\* original's position plus (0.5, 0, 0.5), and every other field equal to
\* the original's; for an id not in the current snapshot it makes no
\* commit and changes nothing.
DuplicateAppendsOffsetClone ==
    [][\A id \in IdUniverse :
          handleDuplicateObject(id) =>
             IF \E i \in DOMAIN objects : objects[i].id = id
             THEN LET original == Find(objects, id)
                      committed == history'[Len(history')]
                      clone == committed[Len(committed)]
                  IN /\ Len(history') = historyIndex + 2
                     /\ historyIndex' = historyIndex + 1
                     /\ SubSeq(history', 1, historyIndex + 1) = SubSeq(history, 1, historyIndex + 1)
                     /\ Len(committed) = Len(objects) + 1
                     /\ SubSeq(committed, 1, Len(objects)) = objects
                     /\ clone.id \notin IdsInHistory
                     /\ clone.name # original.name
                     /\ SubSeq(clone.name, 1, Len(original.name)) = original.name
                     /\ clone.position = Vec(original.position.x + 5000,
                                             original.position.y,
                                             original.position.z + 5000)
                     /\ \A f \in DOMAIN original \ {"id", "name", "position"} :
                           clone[f] = original[f]
                     /\ DOMAIN clone = DOMAIN original
             ELSE UNCHANGED <<history, historyIndex, selectedId, transformMode, snapEnabled,
                              isGenerating, request, mesh, isDragging, livePosition,
                              liveRotation, controls, fault>>]_vars

\* The Sheet was duplicated: its copy is the last object of the new snapshot
SheetDuplicated ==
    /\ probe.phase = "commit"
    /\ HasObjects
    /\ objects = probe.snapshot
    /\ Len(objects) = Len(probe.before) + 1
    /\ objects[Len(objects)].name = "Sheet (Copy)"
    /\ objects[Len(objects)].position = Vec(12192 + 5000, 90, 6096 + 5000)
    /\ selectedId = objects[Len(objects)].id

\* C24: changing the display unit, and likewise the selection, the
\* transform mode, the snap toggle and the dimension, origin and
\* coordinate display toggles, changes no snapshot and not the cursor.
ViewSettingsLeaveHistory ==
    [][  \/ \E u \in UnitTypes : setUnit(u)
         \/ setShowDimensions
         \/ setShowOrigin
         \/ setShowCoordinates
         \/ \E mode \in TransformModes : setTransformMode(mode)
         \/ setSnapEnabled
         \/ \E id \in ViewIds \cup {NullId} : handleSelect(id)
         => UNCHANGED <<history, historyIndex>>]_vars

\* Every view setting differs from its initial value over a history of
\* three snapshots whose added object is selected
EveryViewSettingChanged ==
    /\ unit = "mm"
    /\ showDimensions
    /\ showOrigin
    /\ showCoordinates
    /\ transformMode = "scale"
    /\ snapEnabled
    /\ Len(history) = 3
    /\ historyIndex = 1
    /\ selectedId = 3

\* C25: whenever no drag is in progress on an object (after an undo, a
\* redo, a commit or a drag cut short included), the position, rotation
\* and scale it is displayed with are those of the current snapshot.
IdleShowsSnapshot ==
    ~fault =>
        \A id \in DOMAIN mesh :
            controls # id => mesh[id] = Transform(Find(objects, id))

\* C26: snapshots are never changed in place: undo and redo change only
\* the cursor, every step that changes the history leaves the snapshots
\* up to the cursor it started from element for element as they were, and
\* no frame of the gizmo changes any stored snapshot.
SnapshotsNeverMutated ==
    [][/\ handleUndo \/ handleRedo => history' = history
       /\ \A id \in PendingIds : \A target \in DragPositions :
             handleTransformChange(id, target) => history' = history
       /\ history' # history =>
             /\ Len(history') >= historyIndex + 1
             /\ SubSeq(history', 1, historyIndex + 1) = SubSeq(history, 1, historyIndex + 1)]_vars

\* The cursor after n calls of undo from cursor index
RECURSIVE CursorAfterUndos(_, _)
CursorAfterUndos(n, index) ==
    IF n = 0 THEN index
    ELSE CursorAfterUndos(n - 1, IF index > 0 THEN index - 1 ELSE index)

\* C27: snapshots[0] is the initial scene in every reachable state; undo
\* moves the cursor down by one and leaves the snapshots alone, so that
\* undo applied cursor times ends on the initial scene with canUndo false.
InitialSceneAtBottom ==
    /\ [](/\ Len(history) >= 1
          /\ history[1] = INITIAL_OBJECTS
          /\ historyIndex >= 0
          /\ LET index == CursorAfterUndos(historyIndex, historyIndex)
             IN history[index + 1] = INITIAL_OBJECTS /\ ~(index > 0))
    /\ [][handleUndo =>
             /\ history' = history
             /\ historyIndex' = CursorAfterUndos(1, historyIndex)
             /\ historyIndex' = 0 => objects' = INITIAL_OBJECTS /\ ~canUndo']_vars

\* Two commits were undone one after the other: the cursor is back at 0
\* below two other snapshots, on the initial scene
UndoneToInitialScene ==
    /\ ~fault
    /\ Len(history) >= 3
    /\ historyIndex = 0
    /\ history[2] # INITIAL_OBJECTS
    /\ history[3] # INITIAL_OBJECTS
    /\ objects = INITIAL_OBJECTS
    /\ ~canUndo
    /\ probe.phase # "undoIgnored"

\* C28: handleDeleteObject(id) commits a snapshot holding exactly the
\* objects of the current snapshot whose id differs from id, in their
\* order and as they were; the selection becomes empty if id was selected
\* and is left alone otherwise.
DeleteRemovesThatObjectOnly ==
    [][\A id \in IdUniverse :
          handleDeleteObject(id) =>
             /\ Len(history') = historyIndex + 2
             /\ historyIndex' = historyIndex + 1
             /\ SubSeq(history', 1, historyIndex + 1) = SubSeq(history, 1, historyIndex + 1)
             /\ history'[Len(history')] = SelectSeq(objects, LAMBDA o : o.id # id)
             /\ selectedId' = IF selectedId = id THEN NullId ELSE selectedId]_vars

\* An object between two others was deleted while another object was
\* selected: the two others remain in their order, the selection stays
DeletedBesideSelection ==
    /\ probe.phase = "commit"
    /\ HasObjects
    /\ objects = probe.snapshot
    /\ Len(probe.before) = 3
    /\ objects = <<probe.before[1], probe.before[3]>>
    /\ selectedId = objects[2].id

\* C29: handleAddObject(type) makes exactly one commit whose snapshot is
\* the current snapshot with one new visible object appended at the end,
\* every existing object and their order unchanged, and the new object
\* becomes the selected object.
AddAppendsSelectedObject ==
    [][\A type \in AddTypes :
          handleAddObject(type) =>
             LET committed == history'[Len(history')]
                 added == committed[Len(committed)]
             IN /\ Len(history') = historyIndex + 2
                /\ historyIndex' = historyIndex + 1
                /\ SubSeq(history', 1, historyIndex + 1) = SubSeq(history, 1, historyIndex + 1)
                /\ Len(committed) = Len(objects) + 1
                /\ SubSeq(committed, 1, Len(objects)) = objects
                /\ added.visible
                /\ added.type = type
                /\ added.id \notin IdsInHistory
                /\ selectedId' = added.id]_vars

\* A sphere was added: it is the last object of the new snapshot, after
\* the objects that were there, and the selected one
SphereAddedAndSelected ==
    /\ probe.phase = "commit"
    /\ HasObjects
    /\ objects = probe.snapshot
    /\ objects = probe.before \o <<objects[Len(objects)]>>
    /\ objects[Len(objects)].type = "SPHERE"
    /\ objects[Len(objects)].name = "New sphere"
    /\ objects[Len(objects)].visible
    /\ selectedId = objects[Len(objects)].id

\* C30: in every reachable state the selected id is empty or the id of an
\* object of the current snapshot, also after undo or redo moved the
\* cursor to a snapshot without the object that was selected.
SelectionInCurrentSnapshot ==
    ~fault /\ HasObjects => selectedId = NullId \/ selectedId \in Ids(objects)

\* C31: at most one object is in the Dragging state at any time, and an
\* object is in the Dragging state only while it is the selected object;
\* a response that arrives during a drag and moves the selection to a
\* generated object leaves no object in the Dragging state.
DraggingOnlyTheSelected ==
    ~fault =>
        /\ Cardinality({id \in DOMAIN isDragging : isDragging[id]}) <= 1
        /\ \A id \in DOMAIN isDragging : isDragging[id] => selectedId = id

\* mesh.position once the loop has run over the first n candidates
AfterCandidates(n) ==
    SnapLoop(Moving, SubSeq(Candidates, 1, n), probe.target, probe.target)

\* C32: within one snap evaluation, whether a candidate passes the broad
\* phase and whether it matches an axis are decided from the proposed
\* position only, never from a coordinate an earlier candidate or an
\* earlier axis has adjusted: what a candidate does to an axis is the
\* same after any candidates before it.
DecidedFromProposedPosition ==
    SnapFrame =>
        /\ Snapped = AfterCandidates(Len(Candidates))
        /\ \A n \in 1..Len(Candidates), axis \in Axes :
              LET c == Candidates[n]
              IN AfterCandidates(n)[axis] =
                    IF BelowLimit(c) /\ Matches(c, axis)
                    THEN MatchedFace(c, axis)
                    ELSE AfterCandidates(n - 1)[axis]

\* A candidate matched on an axis that an earlier candidate had adjusted
\* to a coordinate from which it would not have matched
MatchedDespiteEarlierAdjustment ==
    /\ SnapFrame
    /\ \E n \in 1..Len(Candidates), axis \in Axes :
          LET c == Candidates[n]
              adjusted == AfterCandidates(n - 1)[axis]
          IN /\ BelowLimit(c)
             /\ Matches(c, axis)
             /\ adjusted # probe.target[axis]
             /\ ~Within(adjusted, PositiveFace(c, axis))
             /\ ~Within(adjusted, NegativeFace(c, axis))
             /\ AfterCandidates(n)[axis] = MatchedFace(c, axis)

\* C33: when for one candidate and one axis the proposed coordinate is
\* within snapThreshold of both the positive and the negative face, the
\* candidate sets the coordinate to the positive face, its position plus
\* the combined half-width.
PositiveFaceFirst ==
    SnapFrame =>
        \A n \in 1..Len(Passing), axis \in Axes :
            LET c == Passing[n]
                halfWidth == (Moving.scale[axis] + c.scale[axis]) \div 2
            IN /\ Abs(probe.target[axis] - (c.position[axis] + halfWidth)) < snapThreshold
               /\ Abs(probe.target[axis] - (c.position[axis] - halfWidth)) < snapThreshold
               => After(n)[axis] = c.position[axis] + halfWidth

\* The Plank was proposed exactly on the negative Z face of the Sheet, the
\* two 0.018 thick: both faces are within snapThreshold and the Plank went
\* to the positive face
ThinCandidateTakenToPositiveFace ==
    /\ SnapFrame
    /\ probe.id = 1
    /\ \E n \in 1..Len(Passing) :
          LET c == Passing[n]
          IN /\ c.name = "Sheet"
             /\ CombinedHalfWidth(c, "z") < snapThreshold
             /\ probe.target.z = NegativeFace(c, "z")
             /\ Within(probe.target.z, PositiveFace(c, "z"))
             /\ PositiveFace(c, "z") # NegativeFace(c, "z")
             /\ After(n).z = PositiveFace(c, "z")

---------------------------------------------------------------------------
(* Scene generation to its end: a request is submitted, the editor is      *)
(* used while it is pending, and the promise of generateSceneFromPrompt    *)
(* settles, by returning the objects or by throwing.                       *)

GenerationIds == {1, generateId(0)}

\* handleGenerateScene resumed after the tree was unmounted by a render
\* error: the setters of the unmounted App do nothing, the request is over
handleGenerateSceneUnmounted ==
    /\ fault
    /\ request # NoRequest
    /\ request' = NoRequest
    /\ UNCHANGED <<viewVars, history, historyIndex, selectedId, transformMode,
                   snapEnabled, isGenerating, nextId, mesh, isDragging,
                   livePosition, liveRotation, controls, fault, probe, abandoned>>

\* The promise awaited in handleGenerateScene settles, with any outcome
GenerationSettled ==
    \/ \E response \in Responses :
          SettleRoom(response) /\ handleGenerateSceneSettled(response)
    \/ handleGenerateSceneUnmounted

GenerationNext ==
    \/ \E prompt \in Prompts : Room /\ handleSubmit(prompt)
    \/ GenerationSettled
    \/ \E id \in GenerationIds \cup {NullId} : handleSelect(id)
    \/ Room /\ IdsLeft(1) /\ handleAddObject("SPHERE")
    \/ \E id \in GenerationIds : Room /\ handleDeleteObject(id)
    \/ \E id \in GenerationIds : Room /\ handleToggleVisibility(id)
    \/ handleUndo
    \/ handleRedo

\* A pending promise settles: the request returns or fails
GenerationSpec == Init /\ [][GenerationNext]_vars /\ WF_vars(GenerationSettled)

=============================================================================
